---- MODULE Spec2Model ----
(***************************************************************************)
(* Session-backed JWT authentication of the REST backend:                  *)
(*   src/middleware/auth.js   generateToken, verifyToken, authenticate,    *)
(*                            optionalAuth, createSession, revokeSession,  *)
(*                            cleanupExpiredSessions                       *)
(*   src/unnamed/part_001     routes /auth/signup, /login, /logout,        *)
(*                            /refresh and the routes of /items            *)
(*   src/routes/users.js      GET /users/me, PUT /users/me/password,       *)
(*                            DELETE /users/me                             *)
(*   src/unnamed/part_003     schema of users, items, sessions, uploads    *)
(*   src/unnamed/part_004     uploadToSpaces, deleteFromSpaces             *)
(*   src/unnamed/part_000     hourly setInterval of the sweep              *)
(*                                                                         *)
(* The store (users, sessions, items, uploads and the object storage) is   *)
(* shared by the request handlers, which run interleaved: a handler gives  *)
(* up control at every await.  One action                                  *)
(* of the model is one database statement together with the synchronous    *)
(* JavaScript that runs up to the next statement.  Date.now() and the      *)
(* store's NOW() read one clock, now, counted in milliseconds; any number  *)
(* of steps fit in one millisecond.                                        *)
(***************************************************************************)
EXTENDS Integers, Sequences, FiniteSets, Bags, TLC

VARIABLES
    now,        \* the clock, in milliseconds
    users,      \* table users: id -> row
    nextUserId, \* the SERIAL sequence of users.id
    sessions,   \* table sessions: a set of rows
    reqs,       \* the requests in flight, a bag: two may be alike
    issued,     \* the tokens that have been handed to callers in responses
    resp,       \* the response this step sent, NoResp when it sent none
    items,      \* table items: id -> row
    nextItemId, \* the SERIAL sequence of items.id
    uploads,    \* table uploads: a set of rows
    nextUploadId, \* the SERIAL sequence of uploads.id
    spaces      \* the bucket of the object storage: the keys it holds

\* the tables of the item routes and the bucket
itemStore == <<items, nextItemId, uploads, nextUploadId, spaces>>

vars == <<now, users, nextUserId, sessions, reqs, issued, resp, itemStore>>

----------------------------------------------------------------------------
(* Bounds of the model *)

MaxTime == 3        \* the clock stops here
MaxUserId == 1      \* values the users.id sequence may hand out
MaxReqs == 2        \* requests in flight at once
MaxIssued == 2      \* tokens handed out in one behaviour
MsPerSec == 2       \* milliseconds in a second (1000, scaled down)
SecPerWeek == 1     \* seconds in seven days (604800, scaled down)
SampleItemCount == 1 \* rows of the schema's sample data (3, scaled down)
MaxItemId == 2      \* values the items.id sequence may hand out
MaxUploadId == 2    \* values the uploads.id sequence may hand out

----------------------------------------------------------------------------
(* Values *)

Null == "null"

\* the password of the API test (test-api.sh:29)
TestPassword == "Test123!"

\* bcrypt.hash / bcrypt.compare: the hash stands for the password it was
\* made from, compare succeeds exactly on that password
BcryptHash(password) == <<"bcrypt", password>>
BcryptCompare(password, hash) == hash = BcryptHash(password)

\* String.prototype.toLowerCase on the characters the inputs use
LowerChar(c) ==
    CASE c = "A" -> "a"
      [] c = "B" -> "b"
      [] c = "C" -> "c"
      [] OTHER -> c
ToLowerCase(email) == [i \in 1..Len(email) |-> LowerChar(email[i])]

\* /^[^\s@]+@[^\s@]+\.[^\s@]+$/ (part_001:26)
EmailRegexTest(email) ==
    /\ \A i \in 1..Len(email) : email[i] # " "
    /\ \E p \in 2..Len(email) :
          /\ email[p] = "@"
          /\ \A i \in 1..Len(email) : email[i] = "@" => i = p
          /\ \E q \in (p + 2)..(Len(email) - 1) : email[q] = "."

\* the absent token, user and body, of the same shape as the present ones
NoToken == [id |-> 0, email |-> <<>>, jti |-> <<0, 0>>, iat |-> 0, exp |-> 0,
            sig |-> "none"]
NoUser == [id |-> 0, email |-> <<>>]
NoBody == [email |-> <<>>, password |-> "", current_password |-> "",
           new_password |-> "", name |-> "", filename |-> ""]

\* a timestamp column that is NULL
Never == -1

\* items.user_id NULL: the column was added to a table that had rows
NoOwner == 0

\* LIMIT 10 of the public list (part_001:247)
ListLimit == 10

----------------------------------------------------------------------------
(* src/middleware/auth.js: the pure parts *)

\* '7d' of jwt.sign, in seconds, and the 7 days of createSession, in ms
JWT_EXPIRES_IN == SecPerWeek
ExpiresInMs == SecPerWeek * MsPerSec

\* generateToken with a validity window of no length
generateTokenNoWindow(user) ==
    [id |-> user.id, email |-> user.email, jti |-> <<user.id, now>>,
     iat |-> now \div MsPerSec, exp |-> now \div MsPerSec, sig |-> "ok"]

\* jwt.sign: jti is `${user.id}-${Date.now()}`, a string that determines
\* both numbers; iat is the clock in whole seconds, exp = iat + expiresIn
generateToken(user) ==
    [id |-> user.id, email |-> user.email, jti |-> <<user.id, now>>,
     iat |-> now \div MsPerSec, exp |-> (now \div MsPerSec) + JWT_EXPIRES_IN,
     sig |-> "ok"]

\* jwt.verify: the signature must be ours and exp must lie ahead of the
\* clock in whole seconds; verifyToken turns the exception into null
verifyToken(token) ==
    IF token.sig = "ok" /\ (now \div MsPerSec) < token.exp
    THEN token ELSE NoToken

\* authHeader && authHeader.startsWith('Bearer ')
HasBearer(hdr) == hdr.scheme = "Bearer"

\* SELECT id FROM sessions WHERE token_jti = $1 AND expires_at > NOW()
SessionCheck(jti) ==
    {s \in sessions : s.token_jti = jti /\ s.expires_at > now}

\* SELECT ... FROM users WHERE id = $1
UserById(id) == IF id \in DOMAIN users THEN {id} ELSE {}

\* SELECT ... FROM users WHERE email = $1
UserByEmail(email) == {id \in DOMAIN users : users[id].email = email}

\* the row createSession inserts; created_at is the column default
SessionRow(userId, tokenJti) ==
    [user_id |-> userId, token_jti |-> tokenJti,
     expires_at |-> now + ExpiresInMs, created_at |-> now]

\* the INSERT of createSession succeeds unless token_jti UNIQUE, the foreign
\* key on user_id or CHECK (expires_at > created_at) refuses the row
CreateSessionOk(userId, tokenJti) ==
    /\ \A s \in sessions : s.token_jti # tokenJti
    /\ userId \in DOMAIN users
    /\ SessionRow(userId, tokenJti).expires_at
         > SessionRow(userId, tokenJti).created_at

\* createSession whose INSERT is lost
createSessionLost(userId, tokenJti) == sessions

\* createSession with expiresInDays = 0, on a table that does not check
\* the row it takes
createSessionNoWindow(userId, tokenJti) ==
    sessions \cup {[SessionRow(userId, tokenJti) EXCEPT !.expires_at = now]}

\* the table after createSession, when the INSERT succeeds
createSession(userId, tokenJti) ==
    sessions \cup {SessionRow(userId, tokenJti)}

\* revokeSession that deletes nothing
revokeSessionKeepsRow(tokenJti) == sessions

\* DELETE FROM sessions WHERE token_jti = $1, of a table: a statement that
\* matches no row deletes none and is no error
DeleteByJti(table, tokenJti) == {s \in table : s.token_jti # tokenJti}
revokeSession(tokenJti) == DeleteByJti(sessions, tokenJti)

\* the sweep with its comparison turned around
cleanupLiveSessions == {s \in sessions : ~(s.expires_at > now)}

\* DELETE FROM sessions WHERE expires_at < NOW(), of a table
DeleteExpired(table) == {s \in table : ~(s.expires_at < now)}
cleanupExpiredSessions == DeleteExpired(sessions)

\* a deletion of the user on a sessions table without ON DELETE CASCADE
SessionsKeptAfterUserDelete(id) == sessions

\* DELETE FROM users WHERE id = $1, with ON DELETE CASCADE of sessions
SessionsAfterUserDelete(id) == {s \in sessions : s.user_id # id}

----------------------------------------------------------------------------
(* items and uploads, src/unnamed/part_003:5-35, 55-56, 76-85 *)

\* a row of items; created_at is the column default
ItemRow(id, userId, name) ==
    [id |-> id, user_id |-> userId, name |-> name, created_at |-> now]

\* INSERT INTO items (name, description) VALUES ('Sample Item 1', ...): the
\* rows the schema inserts before it adds user_id, which is NULL in them
SampleItems ==
    [id \in 1..SampleItemCount |-> ItemRow(id, NoOwner, "Sample Item")]

\* SELECT ... FROM items WHERE id = $1
ItemById(id) == IF id \in DOMAIN items THEN {items[id]} ELSE {}

\* SELECT * FROM items WHERE user_id = $1
ItemsOfUser(userId) ==
    {items[id] : id \in {i \in DOMAIN items : items[i].user_id = userId}}

\* ORDER BY created_at DESC LIMIT n: the n newest rows, the later id first
\* among rows of one instant
Newest(rows, n) ==
    {row \in rows :
        Cardinality({q \in rows :
                        \/ q.created_at > row.created_at
                        \/ q.created_at = row.created_at /\ q.id > row.id})
            < n}

\* SELECT id, name, description, created_at FROM items ORDER BY created_at
\* DESC LIMIT 10: the query names no owner
PublicItems == Newest({items[id] : id \in DOMAIN items}, ListLimit)

\* the key of an upload, `items/${id}/${Date.now()}-${filename}`
SpacesKey(id, filename) == <<"items", id, now, filename>>

\* result.Location of s3Client.upload, and the key that new URL(file_url)
\* .pathname.substring(1) finds in it
Location(key) == <<"https://bucket.endpoint", key>>
UrlKey(fileUrl) == fileUrl[2]

\* SELECT file_url, filename FROM uploads WHERE item_id = $1
UploadsOfItem(id) == {u \in uploads : u.item_id = id}

\* DELETE FROM items WHERE id = $1, with ON DELETE CASCADE of uploads
ItemsAfterItemDelete(id) == [i \in DOMAIN items \ {id} |-> items[i]]
UploadsAfterItemDelete(id) == {u \in uploads : u.item_id # id}

\* a deletion of the user that leaves the user's items
ItemsKeptAfterUserDelete(userId) == items

\* ON DELETE CASCADE of items.user_id and of uploads.user_id and, through
\* the items that go, of uploads.item_id
ItemsAfterUserDelete(userId) ==
    [i \in {j \in DOMAIN items : items[j].user_id # userId} |-> items[i]]
UploadsAfterUserDelete(userId) ==
    {u \in uploads : /\ u.user_id # userId
                      /\ u.item_id \in DOMAIN ItemsAfterUserDelete(userId)}

----------------------------------------------------------------------------
(* Requests *)

NoHeader == [scheme |-> "none", token |-> NoToken]
BasicHeader == [scheme |-> "Basic", token |-> NoToken]
Bearer(t) == [scheme |-> "Bearer", token |-> t]

\* a request before its first step, and a step without a response
\* id is req.params.id; files are the uploads a DELETE /items/:id has read
\* and has yet to delete from the bucket, failed those whose deletion threw
\* and was logged; key and fileUrl are the locals of the upload handler
Idle == [kind |-> Null, pc |-> "idle", hdr |-> NoHeader, token |-> NoToken,
         user |-> NoUser, body |-> NoBody, id |-> 0, files |-> {},
         failed |-> {}, key |-> <<>>, fileUrl |-> <<>>]
NoResp == [kind |-> Null, hdr |-> NoHeader, user |-> NoUser, handler |-> FALSE,
           status |-> 0, code |-> Null, out |-> NoToken, swept |-> 0,
           id |-> 0, rows |-> {}, error |-> "", failed |-> {}, key |-> <<>>,
           body |-> NoBody]

\* a token a caller made up: a payload it has seen, not signed by the server
Forged(t) == [t EXCEPT !.sig = "bad"]

\* the Authorization headers a caller can send: none, another scheme, a
\* token a response gave it, or such a token with a signature of its own
TokenHeaders == {Bearer(t) : t \in issued}
Headers ==
    {NoHeader, BasicHeader} \cup TokenHeaders
        \cup {Bearer(Forged(t)) : t \in issued}

\* the response of a request: res.status(status).json({code, token: out}),
\* beside the request it answers (hdr, user, id, body, key and failed are
\* the request's); handler tells whether authenticate had called next()
Response(req, handler, status, code, out) ==
    [kind |-> req.kind, hdr |-> req.hdr, user |-> req.user,
     handler |-> handler, status |-> status, code |-> code, out |-> out,
     swept |-> 0, id |-> req.id, rows |-> {}, error |-> "",
     failed |-> req.failed, key |-> req.key, body |-> req.body]

\* a response with rows in it: items, item or upload of the JSON body
RowsResponse(req, status, rows) ==
    [Response(req, TRUE, status, Null, NoToken) EXCEPT !.rows = rows]

\* a response with an error text beside its code
ErrorResponse(req, status, code, error) ==
    [Response(req, TRUE, status, code, NoToken) EXCEPT !.error = error]

\* the requests in flight: those waiting at an await
InFlight == BagToSet(reqs)
Without(r) == IF r = Idle THEN reqs ELSE reqs (-) SetToBag({r})

\* request r (Idle for one that has just arrived) goes on to its next await
Continue(r, req) ==
    /\ reqs' = Without(r) (+) SetToBag({req})
    /\ resp' = NoResp

\* request r ends with a response
Respond(r, response) ==
    /\ reqs' = Without(r)
    /\ resp' = response

\* the signups that have not yet drawn their id from the sequence
SignupsPending ==
    BagCardinality([q \in {x \in InFlight : x.pc = "signup_insert"} |->
                        reqs[q]])

\* every signup in flight can still draw an id below the bound, and so can
\* one more: signups are admitted one at a time while this is required
SequenceHasRoom == nextUserId + SignupsPending <= MaxUserId

\* a request arrives, if the server has room for it
Arrives == BagCardinality(reqs) < MaxReqs

\* the outcome of a step of request r: either the request as it waits at
\* its next await (pc set) or the response that ends it (status set)
Outcome(r, o) ==
    IF o.status = 0 THEN Continue(r, o.req) ELSE Respond(r, o.resp)
Goes(req) == [status |-> 0, req |-> req, resp |-> NoResp]
Ends(response) == [status |-> response.status, req |-> Idle, resp |-> response]

Init ==
    /\ now = 0
    /\ users = <<>>
    /\ nextUserId = 1
    /\ sessions = {}
    /\ reqs = EmptyBag
    /\ issued = {}
    /\ resp = NoResp
    /\ items = SampleItems
    /\ nextItemId = SampleItemCount + 1
    /\ uploads = {}
    /\ nextUploadId = 1
    /\ spaces = {}

----------------------------------------------------------------------------
(* authenticate, src/middleware/auth.js:38-106 *)

\* authenticate that looks the session up before it verifies the token
AuthenticateStepSessionFirst(req) ==
    LET decoded == verifyToken(req.hdr.token)
        fail(code) == Ends(Response(req, FALSE, 401, code, NoToken))
    IN  IF ~HasBearer(req.hdr) THEN fail("NO_TOKEN")
        ELSE IF SessionCheck(req.hdr.token.jti) = {}
             THEN fail("SESSION_EXPIRED")
        ELSE IF decoded = NoToken THEN fail("INVALID_TOKEN")
        ELSE Goes([req EXCEPT !.pc = "auth_user"])

\* lines 41-77: the header, verifyToken and the session lookup.  A request
\* that passes waits for the user lookup.
AuthenticateStep(req) ==
    LET decoded == verifyToken(req.hdr.token)
        fail(code) == Ends(Response(req, FALSE, 401, code, NoToken))
    IN  IF ~HasBearer(req.hdr) THEN fail("NO_TOKEN")
        ELSE IF decoded = NoToken THEN fail("INVALID_TOKEN")
        ELSE IF SessionCheck(decoded.jti) = {} THEN fail("SESSION_EXPIRED")
        ELSE Goes([req EXCEPT !.pc = "auth_user"])

\* a request to a route with :id in its path arrives at authenticate
AuthenticateAt(kind, hdr, body, id) ==
    /\ Arrives
    /\ Outcome(Idle, AuthenticateStep([Idle EXCEPT !.kind = kind, !.hdr = hdr,
                                                !.body = body, !.id = id]))
    /\ UNCHANGED <<now, users, nextUserId, sessions, issued, itemStore>>

Authenticate(kind, hdr, body) == AuthenticateAt(kind, hdr, body, 0)

\* the route handler's synchronous start, entered by next()
HandlerEntry(req) ==
    CASE req.kind = "profile" ->
            \* GET /users/me answers at once (users.js:12-17)
            Ends(Response(req, TRUE, 200, Null, NoToken))
      [] req.kind = "logout" -> Goes([req EXCEPT !.pc = "logout_revoke"])
      [] req.kind = "refresh" -> Goes([req EXCEPT !.pc = "refresh_revoke"])
      [] req.kind = "deleteMe" ->
            \* users.js:175-183
            IF req.body.password = ""
            THEN Ends(Response(req, TRUE, 400, "MISSING_PASSWORD", NoToken))
            ELSE Goes([req EXCEPT !.pc = "delete_hash"])
      [] req.kind = "password" ->
            \* users.js:84-101
            IF req.body.current_password = "" \/ req.body.new_password = ""
            THEN Ends(Response(req, TRUE, 400, "MISSING_FIELDS", NoToken))
            ELSE IF Len(req.body.new_password) < 8
            THEN Ends(Response(req, TRUE, 400, "WEAK_PASSWORD", NoToken))
            ELSE Goes([req EXCEPT !.pc = "password_hash"])
      [] req.kind = "itemCreate" ->
            \* part_001:320-328
            IF req.body.name = ""
            THEN Ends(Response(req, TRUE, 400, "MISSING_NAME", NoToken))
            ELSE Goes([req EXCEPT !.pc = "item_insert"])
      [] req.kind = "itemUpdate" -> Goes([req EXCEPT !.pc = "itemput_check"])
      [] req.kind = "itemDelete" -> Goes([req EXCEPT !.pc = "itemdel_check"])
      [] req.kind = "upload" ->
            \* part_001:500-509
            IF req.body.filename = ""
            THEN Ends(Response(req, TRUE, 400, "MISSING_FIELDS", NoToken))
            ELSE Goes([req EXCEPT !.pc = "upload_check"])
      [] req.kind = "uploads" -> Goes([req EXCEPT !.pc = "uploads_check"])

\* lines 79-97: the user lookup; req.user and req.token are set and next()
\* runs the handler up to its first await
AuthUserStep(req) ==
    LET decoded == req.hdr.token
    IN  IF UserById(decoded.id) = {}
        THEN Ends(Response(req, FALSE, 401, "USER_NOT_FOUND", NoToken))
        ELSE HandlerEntry([req EXCEPT
                !.token = decoded,
                !.user = [id |-> decoded.id,
                          email |-> users[decoded.id].email]])

AuthUser(r) ==
    /\ r.pc = "auth_user"
    /\ Outcome(r, AuthUserStep(r))
    /\ UNCHANGED <<now, users, nextUserId, sessions, issued, itemStore>>

\* GET /api/users/me
StartProfile(hdr) == Authenticate("profile", hdr, NoBody)

\* POST /api/auth/logout
StartLogout(hdr) == Authenticate("logout", hdr, NoBody)

\* POST /api/auth/refresh
StartRefresh(hdr) ==
    /\ Cardinality(issued) < MaxIssued
    /\ Authenticate("refresh", hdr, NoBody)

\* DELETE /api/users/me
StartDeleteMe(hdr, password) ==
    Authenticate("deleteMe", hdr, [NoBody EXCEPT !.password = password])

\* authenticate run to its end in the current state with nothing
\* interleaved: the code of its answer, "OK" when it calls next()
AuthenticateNow(hdr) ==
    LET first == AuthenticateStep([Idle EXCEPT !.kind = "profile",
                                               !.hdr = hdr])
        second == AuthUserStep(first.req)
    IN  IF first.status # 0 THEN first.resp.code
        ELSE IF second.resp.handler THEN "OK" ELSE second.resp.code

----------------------------------------------------------------------------
(* the route handlers of /auth, src/unnamed/part_001:12-222 *)

\* the tail shared by signup, login and refresh: generateToken, then
\* createSession, then the response with the token; a failing INSERT throws
\* into the handler's catch
IssueAndRespond(r, okStatus, errCode) ==
    LET req == r
        token == generateToken(req.user)
    IN  IF CreateSessionOk(req.user.id, token.jti)
        THEN /\ sessions' = createSession(req.user.id, token.jti)
             /\ Respond(r, Response(req, TRUE, okStatus, Null, token))
             /\ issued' = issued \cup {token}
        ELSE /\ Respond(r, Response(req, TRUE, 500, errCode, NoToken))
             /\ UNCHANGED <<sessions, issued>>

\* a logout that ends every session of the user
LogoutRevokeAll(r) ==
    /\ r.pc = "logout_revoke"
    /\ sessions' = {s \in sessions : s.user_id # r.user.id}
    /\ Respond(r, Response(r, TRUE, 200, Null, NoToken))
    /\ UNCHANGED <<now, users, nextUserId, issued, itemStore>>

\* a logout that takes a DELETE of no row for a failure
LogoutRevokeStrict(r) ==
    /\ r.pc = "logout_revoke"
    /\ sessions' = revokeSession(r.token.jti)
    /\ IF sessions' = sessions
       THEN Respond(r, Response(r, TRUE, 500, "LOGOUT_ERROR", NoToken))
       ELSE Respond(r, Response(r, TRUE, 200, Null, NoToken))
    /\ UNCHANGED <<now, users, nextUserId, issued, itemStore>>

\* logout, lines 175-192
LogoutRevoke(r) ==
    /\ r.pc = "logout_revoke"
    /\ sessions' = revokeSession(r.token.jti)
    /\ Respond(r, Response(r, TRUE, 200, Null, NoToken))
    /\ UNCHANGED <<now, users, nextUserId, issued, itemStore>>

\* refresh, lines 200-201
RefreshRevoke(r) ==
    /\ r.pc = "refresh_revoke"
    /\ sessions' = revokeSession(r.token.jti)
    /\ Continue(r, [r EXCEPT !.pc = "refresh_session"])
    /\ UNCHANGED <<now, users, nextUserId, issued, itemStore>>

\* refresh, lines 203-221
RefreshSession(r) ==
    /\ r.pc = "refresh_session"
    /\ IssueAndRespond(r, 200, "REFRESH_ERROR")
    /\ UNCHANGED <<now, users, nextUserId, itemStore>>

\* a login that tells the caller when it does not know the e-mail
LoginStepTelling(req) ==
    LET found == UserByEmail(ToLowerCase(req.body.email))
        fail(status, code, error) ==
            Ends(ErrorResponse(req, status, code, error))
    IN  IF found = {} THEN fail(401, "USER_NOT_FOUND", "No such user")
        ELSE LET id == CHOOSE id \in found : TRUE
             IN  IF ~BcryptCompare(req.body.password, users[id].password_hash)
                 THEN fail(401, "INVALID_CREDENTIALS",
                           "Invalid email or password")
                 ELSE Goes([req EXCEPT !.pc = "login_update",
                                       !.user = [id |-> id,
                                                 email |-> users[id].email]])

\* login, lines 102-138: the body, the lookup by lower-cased email and
\* bcrypt.compare
LoginStep(req) ==
    LET found == UserByEmail(ToLowerCase(req.body.email))
        fail(status, code, error) ==
            Ends(ErrorResponse(req, status, code, error))
    IN  IF req.body.email = <<>> \/ req.body.password = ""
        THEN fail(400, "MISSING_FIELDS", "Email and password are required")
        ELSE IF found = {}
             THEN fail(401, "INVALID_CREDENTIALS", "Invalid email or password")
        ELSE LET id == CHOOSE id \in found : TRUE
             IN  IF ~BcryptCompare(req.body.password, users[id].password_hash)
                 THEN fail(401, "INVALID_CREDENTIALS",
                           "Invalid email or password")
                 ELSE Goes([req EXCEPT !.pc = "login_update",
                                       !.user = [id |-> id,
                                                 email |-> users[id].email]])

StartLogin(email, password) ==
    /\ Arrives
    /\ Cardinality(issued) < MaxIssued
    /\ Outcome(Idle, LoginStep([Idle EXCEPT !.kind = "login",
                                !.body = [NoBody EXCEPT
                                          !.email = email,
                                          !.password = password]]))
    /\ UNCHANGED <<now, users, nextUserId, sessions, issued, itemStore>>

\* login, lines 140-144: UPDATE users SET last_login = NOW() WHERE id = $1,
\* which matches no row when the user has gone since the lookup
LoginUpdate(r) ==
    /\ r.pc = "login_update"
    /\ users' = [id \in DOMAIN users |->
                    IF id = r.user.id
                    THEN [users[id] EXCEPT !.last_login = now]
                    ELSE users[id]]
    /\ Continue(r, [r EXCEPT !.pc = "login_session"])
    /\ UNCHANGED <<now, nextUserId, sessions, issued, itemStore>>

\* login, lines 146-168
LoginSession(r) ==
    /\ r.pc = "login_session"
    /\ IssueAndRespond(r, 200, "LOGIN_ERROR")
    /\ UNCHANGED <<now, users, nextUserId, itemStore>>

\* signup, lines 14-56: the body, the e-mail format, the password length
\* and the lookup of the lower-cased e-mail
SignupStep(req) ==
    LET fail(code) == Ends(Response(req, TRUE, 400, code, NoToken))
    IN  IF req.body.email = <<>> \/ req.body.password = ""
        THEN fail("MISSING_FIELDS")
        ELSE IF ~EmailRegexTest(req.body.email) THEN fail("INVALID_EMAIL")
        ELSE IF Len(req.body.password) < 8 THEN fail("WEAK_PASSWORD")
        ELSE IF UserByEmail(ToLowerCase(req.body.email)) # {}
             THEN fail("EMAIL_EXISTS")
        ELSE Goes([req EXCEPT !.pc = "signup_insert"])

StartSignup(email, password) ==
    /\ Arrives
    /\ Cardinality(issued) < MaxIssued
    /\ Outcome(Idle, SignupStep([Idle EXCEPT !.kind = "signup",
                                 !.body = [NoBody EXCEPT
                                           !.email = email,
                                           !.password = password]]))
    /\ UNCHANGED <<now, users, nextUserId, sessions, issued, itemStore>>

\* signup, lines 58-67: bcrypt.hash and INSERT INTO users; the sequence
\* gives the id, and email UNIQUE may refuse the row (caught at 86-92)
SignupInsert(r) ==
    /\ r.pc = "signup_insert"
    /\ nextUserId' = nextUserId + 1
    /\ LET email == ToLowerCase(r.body.email)
       IN  IF UserByEmail(email) # {}
           THEN /\ Respond(r, Response(r, TRUE, 500, "SIGNUP_ERROR",
                                       NoToken))
                /\ UNCHANGED users
           ELSE /\ users' = [id \in DOMAIN users \cup {nextUserId} |->
                                IF id = nextUserId
                                THEN [email |-> email,
                                      password_hash |->
                                        BcryptHash(r.body.password),
                                      last_login |-> Never]
                                ELSE users[id]]
                /\ Continue(r, [r EXCEPT
                                  !.pc = "signup_session",
                                  !.user = [id |-> nextUserId,
                                            email |-> email]])
    /\ UNCHANGED <<now, sessions, issued, itemStore>>

\* signup, lines 69-93
SignupSession(r) ==
    /\ r.pc = "signup_session"
    /\ IssueAndRespond(r, 201, "SIGNUP_ERROR")
    /\ UNCHANGED <<now, users, nextUserId, itemStore>>

\* signup, line 74 and lines 86-92: the store rejects the INSERT of
\* createSession (the connection is lost, the statement times out) and the
\* catch answers 500; the INSERT INTO users of lines 62-65 was a statement
\* of its own and its row stays
SignupSessionFails(r) ==
    /\ r.pc = "signup_session"
    /\ Respond(r, Response(r, TRUE, 500, "SIGNUP_ERROR", NoToken))
    /\ UNCHANGED <<now, users, nextUserId, sessions, issued, itemStore>>

----------------------------------------------------------------------------
(* PUT /api/users/me/password, src/routes/users.js:82-141 *)

StartPassword(hdr, current, new) ==
    Authenticate("password", hdr, [NoBody EXCEPT !.current_password = current,
                                                 !.new_password = new])

\* a password change that does not compare the current password
PasswordHashStepUnchecked(req) ==
    IF UserById(req.user.id) = {}
    THEN Ends(Response(req, TRUE, 500, "PASSWORD_ERROR", NoToken))
    ELSE Goes([req EXCEPT !.pc = "password_update"])

\* lines 103-118: the stored hash and bcrypt.compare; rows[0] of a user
\* that is gone is undefined and the read of password_hash throws
PasswordHashStep(req) ==
    IF UserById(req.user.id) = {}
    THEN Ends(Response(req, TRUE, 500, "PASSWORD_ERROR", NoToken))
    ELSE IF ~BcryptCompare(req.body.current_password,
                           users[req.user.id].password_hash)
         THEN Ends(Response(req, TRUE, 401, "INVALID_PASSWORD", NoToken))
         ELSE Goes([req EXCEPT !.pc = "password_update"])

PasswordHash(r) ==
    /\ r.pc = "password_hash"
    /\ Outcome(r, PasswordHashStep(r))
    /\ UNCHANGED <<now, users, nextUserId, sessions, issued, itemStore>>

\* a password change that ends the sessions of its user
PasswordUpdateRevoking(r) ==
    /\ r.pc = "password_update"
    /\ users' = [id \in DOMAIN users |->
                    IF id = r.user.id
                    THEN [users[id] EXCEPT !.password_hash =
                                             BcryptHash(r.body.new_password)]
                    ELSE users[id]]
    /\ sessions' = SessionsAfterUserDelete(r.user.id)
    /\ Respond(r, Response(r, TRUE, 200, Null, NoToken))
    /\ UNCHANGED <<now, nextUserId, issued, itemStore>>

\* lines 120-132: bcrypt.hash and UPDATE users SET password_hash = $1 WHERE
\* id = $2, which matches no row when the user has gone
PasswordUpdate(r) ==
    /\ r.pc = "password_update"
    /\ users' = [id \in DOMAIN users |->
                    IF id = r.user.id
                    THEN [users[id] EXCEPT !.password_hash =
                                             BcryptHash(r.body.new_password)]
                    ELSE users[id]]
    /\ Respond(r, Response(r, TRUE, 200, Null, NoToken))
    /\ UNCHANGED <<now, nextUserId, sessions, issued, itemStore>>

----------------------------------------------------------------------------
(* DELETE /api/users/me, src/routes/users.js:173-217 *)

\* lines 185-200: the stored hash and bcrypt.compare; rows[0] of a user
\* that is gone is undefined and the read of password_hash throws
DeleteHashStep(req) ==
    IF UserById(req.user.id) = {}
    THEN Ends(Response(req, TRUE, 500, "DELETE_ERROR", NoToken))
    ELSE IF ~BcryptCompare(req.body.password,
                           users[req.user.id].password_hash)
         THEN Ends(Response(req, TRUE, 401, "INVALID_PASSWORD", NoToken))
         ELSE Goes([req EXCEPT !.pc = "delete_user"])

DeleteHash(r) ==
    /\ r.pc = "delete_hash"
    /\ Outcome(r, DeleteHashStep(r))
    /\ UNCHANGED <<now, users, nextUserId, sessions, issued, itemStore>>

\* lines 202-208: DELETE FROM users, cascading to the user's sessions, items
\* and uploads
DeleteUser(r) ==
    /\ r.pc = "delete_user"
    /\ users' = [id \in DOMAIN users \ {r.user.id} |-> users[id]]
    /\ sessions' = SessionsAfterUserDelete(r.user.id)
    /\ Respond(r, Response(r, TRUE, 200, Null, NoToken))
    /\ items' = ItemsAfterUserDelete(r.user.id)
    /\ uploads' = UploadsAfterUserDelete(r.user.id)
    /\ UNCHANGED <<now, nextUserId, issued, nextItemId, nextUploadId, spaces>>

----------------------------------------------------------------------------
(* optionalAuth, src/middleware/auth.js:112-138, in front of GET /items *)

\* optionalAuth sets req.user and req.token or leaves them unset, and calls
\* next() either way
OptionalAuthStep(req) ==
    LET decoded == verifyToken(req.hdr.token)
    IN  IF HasBearer(req.hdr) /\ decoded # NoToken
           /\ UserById(decoded.id) # {}
        THEN [req EXCEPT !.token = decoded,
                         !.user = [id |-> decoded.id,
                                   email |-> users[decoded.id].email]]
        ELSE req

\* optionalAuth run in the current state: does it set req.user and req.token
OptionalAuthAttaches(hdr) ==
    OptionalAuthStep([Idle EXCEPT !.hdr = hdr]).user # NoUser

\* optionalAuth that answers for itself when its query fails, as authenticate
\* does
optionalAuthStrict(req, ok) ==
    IF ok THEN Goes(OptionalAuthStep(req))
    ELSE Ends(Response(req, FALSE, 500, "AUTH_ERROR", NoToken))

\* optionalAuth with the outcome of its query: a query that fails throws
\* into the catch of lines 134-137, which calls next() with nothing
\* attached; the request goes on to the handler either way
optionalAuth(req, ok) == Goes(IF ok THEN OptionalAuthStep(req) ELSE req)

\* GET /items, part_001:237
StartItems(hdr) ==
    /\ Arrives
    /\ \E ok \in BOOLEAN :
          Outcome(Idle, optionalAuth([Idle EXCEPT !.kind = "items",
                                      !.hdr = hdr, !.pc = "items_list"], ok))
    /\ UNCHANGED <<now, users, nextUserId, sessions, issued, itemStore>>

\* GET /items, part_001:237-266: the items of req.user when optionalAuth
\* has set it, and otherwise the newest items whoever owns them
ItemsList(r) ==
    /\ r.pc = "items_list"
    /\ Respond(r, RowsResponse(r, 200,
                               IF r.user # NoUser
                               THEN ItemsOfUser(r.user.id)
                               ELSE PublicItems))
    /\ UNCHANGED <<now, users, nextUserId, sessions, issued, itemStore>>

\* GET /items/:id, part_001:272
StartItem(hdr, id) ==
    /\ Arrives
    /\ \E ok \in BOOLEAN :
          Outcome(Idle, optionalAuth([Idle EXCEPT !.kind = "item",
                                      !.hdr = hdr, !.id = id,
                                      !.pc = "item_get"], ok))
    /\ UNCHANGED <<now, users, nextUserId, sessions, issued, itemStore>>

\* item.user_id && (!req.user || item.user_id !== req.user.id)
ReadDenied(item, user) ==
    item.user_id # NoOwner /\ (user = NoUser \/ item.user_id # user.id)

\* GET /items/:id, part_001:276-303
ItemGet(r) ==
    /\ r.pc = "item_get"
    /\ Respond(r, IF ItemById(r.id) = {}
                  THEN Response(r, TRUE, 404, "NOT_FOUND", NoToken)
                  ELSE IF ReadDenied(items[r.id], r.user)
                  THEN Response(r, TRUE, 403, "FORBIDDEN", NoToken)
                  ELSE RowsResponse(r, 200, {items[r.id]}))
    /\ UNCHANGED <<now, users, nextUserId, sessions, issued, itemStore>>

----------------------------------------------------------------------------
(* the routes of /items behind authenticate, src/unnamed/part_001:318-610 *)

\* an ownership check that only looks whether the item exists
OwnershipCheckExists(req, pc) ==
    IF ItemById(req.id) = {}
    THEN Ends(Response(req, TRUE, 404, "NOT_FOUND", NoToken))
    ELSE Goes([req EXCEPT !.pc = pc])

\* an ownership check that lets every user through to an item without owner,
\* as the check of GET /items/:id does
OwnershipCheckLegacyOpen(req, pc) ==
    IF ItemById(req.id) = {}
    THEN Ends(Response(req, TRUE, 404, "NOT_FOUND", NoToken))
    ELSE IF ReadDenied(items[req.id], req.user)
         THEN Ends(Response(req, TRUE, 403, "FORBIDDEN", NoToken))
         ELSE Goes([req EXCEPT !.pc = pc])

\* the ownership check that opens PUT, DELETE, upload and the listing of
\* uploads: SELECT user_id FROM items WHERE id = $1, 404 for no row, 403
\* for an item that is not the caller's
OwnershipCheck(req, pc) ==
    IF ItemById(req.id) = {}
    THEN Ends(Response(req, TRUE, 404, "NOT_FOUND", NoToken))
    ELSE IF items[req.id].user_id # req.user.id
         THEN Ends(Response(req, TRUE, 403, "FORBIDDEN", NoToken))
         ELSE Goes([req EXCEPT !.pc = pc])

\* the item creations that have not yet drawn their id from the sequence
ItemsPending ==
    BagCardinality([q \in {x \in InFlight : x.kind = "itemCreate"} |->
                        reqs[q]])

\* every creation in flight can still draw an id below the bound, and so
\* can one more
ItemSequenceHasRoom == nextItemId + ItemsPending <= MaxItemId

\* POST /items, part_001:318
StartCreateItem(hdr, name) ==
    AuthenticateAt("itemCreate", hdr, [NoBody EXCEPT !.name = name], 0)

\* lines 330-338: INSERT INTO items ... RETURNING *; the sequence gives the
\* id, and the foreign key on user_id refuses the row of a user that has
\* gone (caught at 339-346)
ItemInsert(r) ==
    /\ r.pc = "item_insert"
    /\ nextItemId' = nextItemId + 1
    /\ IF UserById(r.user.id) = {}
       THEN /\ Respond(r, Response(r, TRUE, 500, "CREATE_ERROR", NoToken))
            /\ UNCHANGED items
       ELSE LET row == ItemRow(nextItemId, r.user.id, r.body.name)
            IN  /\ items' = [id \in DOMAIN items \cup {nextItemId} |->
                                IF id = nextItemId THEN row ELSE items[id]]
                /\ Respond(r, RowsResponse([r EXCEPT !.id = nextItemId],
                                           201, {row}))
    /\ UNCHANGED <<now, users, nextUserId, sessions, issued, uploads,
                   nextUploadId, spaces>>

\* PUT /items/:id, part_001:353
StartUpdateItem(hdr, id, name) ==
    AuthenticateAt("itemUpdate", hdr, [NoBody EXCEPT !.name = name], id)

\* lines 359-406: the ownership check, then the fields of the body
ItemPutCheckStep(req) ==
    LET owned == OwnershipCheck(req, "itemput_update")
    IN  IF owned.status # 0 THEN owned
        ELSE IF req.body.name = ""
             THEN Ends(Response(req, TRUE, 400, "NO_UPDATES", NoToken))
             ELSE owned

ItemPutCheck(r) ==
    /\ r.pc = "itemput_check"
    /\ Outcome(r, ItemPutCheckStep(r))
    /\ UNCHANGED <<now, users, nextUserId, sessions, issued, itemStore>>

\* lines 410-418: UPDATE items SET name = $1 ... WHERE id = $2 RETURNING *;
\* for an item that has gone the statement returns no row
ItemPutUpdate(r) ==
    /\ r.pc = "itemput_update"
    /\ items' = [id \in DOMAIN items |->
                    IF id = r.id THEN [items[id] EXCEPT !.name = r.body.name]
                    ELSE items[id]]
    /\ Respond(r, RowsResponse(r, 200, {items'[id] : id \in DOMAIN items \cap {r.id}}))
    /\ UNCHANGED <<now, users, nextUserId, sessions, issued, nextItemId,
                   uploads, nextUploadId, spaces>>

\* DELETE /items/:id, part_001:433
StartDeleteItem(hdr, id) == AuthenticateAt("itemDelete", hdr, NoBody, id)

\* lines 438-457
ItemDelCheck(r) ==
    /\ r.pc = "itemdel_check"
    /\ Outcome(r, OwnershipCheck(r, "itemdel_uploads"))
    /\ UNCHANGED <<now, users, nextUserId, sessions, issued, itemStore>>

\* where the loop over the uploads stands: at the next deleteFromSpaces
\* while files are left, at the DELETE of the item after the last
AfterFile(req) ==
    [req EXCEPT !.pc = IF req.files = {} THEN "itemdel_delete"
                       ELSE "itemdel_blob"]

\* lines 460-463: the uploads of the item
ItemDelUploads(r) ==
    /\ r.pc = "itemdel_uploads"
    /\ Continue(r, AfterFile([r EXCEPT
                       !.files = {u.file_url : u \in UploadsOfItem(r.id)}]))
    /\ UNCHANGED <<now, users, nextUserId, sessions, issued, itemStore>>

\* part_004:45-58: deleteObject deletes the key, or fails and the error is
\* thrown on; the result tells whether the call returned
deleteFromSpaces(key, ok) == ok

\* the bucket after deleteObject has been tried on a key
SpacesAfterDelete(key, ok) == IF ok THEN spaces \ {key} ELSE spaces

\* a loop over the uploads that the first failure leaves: the handler's
\* outer catch answers 500
ItemDelBlobAbort(r) ==
    /\ r.pc = "itemdel_blob"
    /\ \E fileUrl \in r.files, ok \in BOOLEAN :
          /\ spaces' = SpacesAfterDelete(UrlKey(fileUrl), ok)
          /\ IF deleteFromSpaces(UrlKey(fileUrl), ok)
             THEN Continue(r, AfterFile([r EXCEPT
                                           !.files = r.files \ {fileUrl}]))
             ELSE Respond(r, Response(r, TRUE, 500, "DELETE_ERROR", NoToken))
    /\ UNCHANGED <<now, users, nextUserId, sessions, issued, items,
                   nextItemId, uploads, nextUploadId>>

\* lines 465-474: one turn of the loop, deleteFromSpaces of the key in the
\* file_url of one upload; an error is logged and the loop goes on
ItemDelBlob(r) ==
    /\ r.pc = "itemdel_blob"
    /\ \E fileUrl \in r.files, ok \in BOOLEAN :
          /\ spaces' = SpacesAfterDelete(UrlKey(fileUrl), ok)
          /\ Continue(r, AfterFile([r EXCEPT
                 !.files = r.files \ {fileUrl},
                 !.failed = IF deleteFromSpaces(UrlKey(fileUrl), ok)
                            THEN r.failed
                            ELSE r.failed \cup {UrlKey(fileUrl)}]))
    /\ UNCHANGED <<now, users, nextUserId, sessions, issued, items,
                   nextItemId, uploads, nextUploadId>>

\* lines 476-482: DELETE FROM items, cascading to the uploads of the item
ItemDelDelete(r) ==
    /\ r.pc = "itemdel_delete"
    /\ items' = ItemsAfterItemDelete(r.id)
    /\ uploads' = UploadsAfterItemDelete(r.id)
    /\ Respond(r, Response(r, TRUE, 200, Null, NoToken))
    /\ UNCHANGED <<now, users, nextUserId, sessions, issued, nextItemId,
                   nextUploadId, spaces>>

\* the uploads in flight that have not yet drawn their id
UploadsPending ==
    BagCardinality([q \in {x \in InFlight : x.kind = "upload"} |-> reqs[q]])
UploadSequenceHasRoom == nextUploadId + UploadsPending <= MaxUploadId

\* POST /items/:id/upload, part_001:498
StartUpload(hdr, id, filename) ==
    AuthenticateAt("upload", hdr, [NoBody EXCEPT !.filename = filename], id)

\* lines 512-535: the ownership check, then the key from Date.now()
UploadCheckStep(req) ==
    OwnershipCheck([req EXCEPT !.key = SpacesKey(req.id, req.body.filename)],
                   "upload_spaces")

UploadCheck(r) ==
    /\ r.pc = "upload_check"
    /\ Outcome(r, UploadCheckStep(r))
    /\ UNCHANGED <<now, users, nextUserId, sessions, issued, itemStore>>

\* uploadToSpaces that swallows the error and returns the URL
uploadToSpacesSilent(key, ok) == TRUE

\* part_004:22-39: s3Client.upload stores the object and returns its
\* Location, or fails and the error is thrown on; the result tells whether
\* the call returned
uploadToSpaces(key, ok) == ok

\* lines 536-540, and the catch at 552-559 when uploadToSpaces throws
UploadSpaces(r) ==
    /\ r.pc = "upload_spaces"
    /\ \E ok \in BOOLEAN :
          /\ spaces' = IF ok THEN spaces \cup {r.key} ELSE spaces
          /\ IF uploadToSpaces(r.key, ok)
             THEN Continue(r, [r EXCEPT !.pc = "upload_insert",
                                        !.fileUrl = Location(r.key)])
             ELSE Respond(r, Response(r, TRUE, 500, "UPLOAD_ERROR", NoToken))
    /\ UNCHANGED <<now, users, nextUserId, sessions, issued, items,
                   nextItemId, uploads, nextUploadId>>

\* the row the upload handler inserts
UploadRow(req) ==
    [id |-> nextUploadId, user_id |-> req.user.id, item_id |-> req.id,
     filename |-> req.body.filename, file_url |-> req.fileUrl]

\* lines 543-551: INSERT INTO uploads; the foreign keys refuse the row when
\* the user or the item has gone (caught at 552-559)
UploadInsert(r) ==
    /\ r.pc = "upload_insert"
    /\ nextUploadId' = nextUploadId + 1
    /\ IF UserById(r.user.id) = {} \/ ItemById(r.id) = {}
       THEN /\ Respond(r, Response(r, TRUE, 500, "UPLOAD_ERROR", NoToken))
            /\ UNCHANGED uploads
       ELSE /\ uploads' = uploads \cup {UploadRow(r)}
            /\ Respond(r, RowsResponse(r, 200, {UploadRow(r)}))
    /\ UNCHANGED <<now, users, nextUserId, sessions, issued, items,
                   nextItemId, spaces>>

\* GET /items/:id/uploads, part_001:566
StartUploads(hdr, id) == AuthenticateAt("uploads", hdr, NoBody, id)

\* lines 570-590
UploadsCheck(r) ==
    /\ r.pc = "uploads_check"
    /\ Outcome(r, OwnershipCheck(r, "uploads_list"))
    /\ UNCHANGED <<now, users, nextUserId, sessions, issued, itemStore>>

\* lines 592-601: SELECT * FROM uploads WHERE item_id = $1
UploadsList(r) ==
    /\ r.pc = "uploads_list"
    /\ Respond(r, RowsResponse(r, 200, UploadsOfItem(r.id)))
    /\ UNCHANGED <<now, users, nextUserId, sessions, issued, itemStore>>

----------------------------------------------------------------------------
(* the timer and the clock *)

\* a timer whose callback logs a count and deletes no row
SweepLogsOnly ==
    /\ resp' = [NoResp EXCEPT !.kind = "sweep"]
    /\ UNCHANGED <<now, users, nextUserId, sessions, reqs, issued, itemStore>>

\* setInterval(cleanupExpiredSessions, 1h), part_000:226-230; the run logs
\* result.rowCount, the number of rows it deleted
Sweep ==
    /\ sessions' = cleanupExpiredSessions
    /\ resp' = [NoResp EXCEPT !.kind = "sweep",
                   !.swept = Cardinality(sessions \ cleanupExpiredSessions)]
    /\ UNCHANGED <<now, users, nextUserId, reqs, issued, itemStore>>

\* a run of the sweep whose query fails: the rejection is caught and logged
\* by the callback of the timer (part_000:227-229) and no row is deleted
SweepFails ==
    /\ resp' = [NoResp EXCEPT !.kind = "sweep",
                              !.error = "Session cleanup error"]
    /\ UNCHANGED <<now, users, nextUserId, sessions, reqs, issued, itemStore>>

\* a millisecond passes
Tick ==
    /\ now < MaxTime
    /\ now' = now + 1
    /\ resp' = NoResp
    /\ UNCHANGED <<users, nextUserId, sessions, reqs, issued, itemStore>>

\* what callers put in request bodies
Emails == {<<"a","@","b",".","c">>, <<"A","@","b",".","c">>, <<"a","b">>}
Passwords == {TestPassword, "short"}

Next ==
    \/ \E hdr \in Headers : StartProfile(hdr)
    \/ \E hdr \in TokenHeaders : StartLogout(hdr)
    \/ \E hdr \in TokenHeaders : StartRefresh(hdr)
    \/ \E hdr \in TokenHeaders, pw \in Passwords \cup {""} :
            StartDeleteMe(hdr, pw)
    \/ \E e \in Emails, pw \in Passwords : StartLogin(e, pw)
    \/ \E e \in Emails, pw \in Passwords :
            SequenceHasRoom /\ StartSignup(e, pw)
    \/ \E r \in InFlight : AuthUser(r)
    \/ \E r \in InFlight : LogoutRevoke(r)
    \/ \E r \in InFlight : RefreshRevoke(r)
    \/ \E r \in InFlight : RefreshSession(r)
    \/ \E r \in InFlight : LoginUpdate(r)
    \/ \E r \in InFlight : LoginSession(r)
    \/ \E r \in InFlight : SignupInsert(r)
    \/ \E r \in InFlight : SignupSession(r)
    \/ \E r \in InFlight : DeleteHash(r)
    \/ \E r \in InFlight : DeleteUser(r)
    \/ Sweep
    \/ Tick

Spec == Init /\ [][Next]_vars

----------------------------------------------------------------------------
(* signups that race, and the routes of /users/me *)

\* the users.id sequence has handed out fewer ids than the bound; signups
\* in flight may each still draw one
SequenceOpen == nextUserId <= MaxUserId

\* a password a user may change to
NewPassword == "Changed456!"

AccountNext ==
    \/ \E e \in Emails, pw \in Passwords : SequenceOpen /\ StartSignup(e, pw)
    \/ \E hdr \in TokenHeaders, current \in {TestPassword, NewPassword},
           new \in {NewPassword, "short"} : StartPassword(hdr, current, new)
    \/ \E hdr \in TokenHeaders : StartDeleteMe(hdr, TestPassword)
    \/ \E r \in InFlight : SignupInsert(r)
    \/ \E r \in InFlight : SignupSession(r)
    \/ \E r \in InFlight : SignupSessionFails(r)
    \/ \E r \in InFlight : AuthUser(r)
    \/ \E r \in InFlight : PasswordHash(r)
    \/ \E r \in InFlight : PasswordUpdate(r)
    \/ \E r \in InFlight : DeleteHash(r)
    \/ \E r \in InFlight : DeleteUser(r)

AccountSpec == Init /\ [][AccountNext]_vars

----------------------------------------------------------------------------
(* the routes of /items and DELETE /users/me, for two users with a session *)

\* the users of two signups (part_001:58-67)
TwoUsers ==
    [id \in {1, 2} |->
        [email |-> IF id = 1 THEN <<"a", "@", "b", ".", "c">>
                   ELSE <<"b", "@", "b", ".", "c">>,
         password_hash |-> BcryptHash(TestPassword),
         last_login |-> Never]]

\* the state two signups leave: each user has the session of its token
ItemInit ==
    /\ now = 0
    /\ users = TwoUsers
    /\ nextUserId = 3
    /\ sessions = {SessionRow(id, generateToken([id |-> id,
                                  email |-> TwoUsers[id].email]).jti) :
                       id \in {1, 2}}
    /\ reqs = EmptyBag
    /\ issued = {generateToken([id |-> id, email |-> TwoUsers[id].email]) :
                    id \in {1, 2}}
    /\ resp = NoResp
    /\ items = SampleItems
    /\ nextItemId = SampleItemCount + 1
    /\ uploads = {}
    /\ nextUploadId = 1
    /\ spaces = {}

\* what callers of the item routes send
ItemIds == 1..MaxItemId
ReadHeaders == {NoHeader} \cup TokenHeaders

ItemNext ==
    \/ \E hdr \in Headers : StartItems(hdr)
    \/ \E hdr \in ReadHeaders, id \in ItemIds : StartItem(hdr, id)
    \/ \E hdr \in TokenHeaders :
            ItemSequenceHasRoom /\ StartCreateItem(hdr, "X")
    \/ \E hdr \in TokenHeaders, id \in ItemIds : StartUpdateItem(hdr, id, "Y")
    \/ \E hdr \in TokenHeaders, id \in ItemIds : StartDeleteItem(hdr, id)
    \/ \E hdr \in TokenHeaders, id \in ItemIds :
            UploadSequenceHasRoom /\ StartUpload(hdr, id, "f")
    \/ \E hdr \in TokenHeaders, id \in ItemIds : StartUpload(hdr, id, "")
    \/ \E hdr \in TokenHeaders, id \in ItemIds : StartUploads(hdr, id)
    \/ \E hdr \in TokenHeaders : StartDeleteMe(hdr, TestPassword)
    \/ \E r \in InFlight : AuthUser(r)
    \/ \E r \in InFlight : ItemsList(r)
    \/ \E r \in InFlight : ItemGet(r)
    \/ \E r \in InFlight : ItemInsert(r)
    \/ \E r \in InFlight : ItemPutCheck(r)
    \/ \E r \in InFlight : ItemPutUpdate(r)
    \/ \E r \in InFlight : ItemDelCheck(r)
    \/ \E r \in InFlight : ItemDelUploads(r)
    \/ \E r \in InFlight : ItemDelBlob(r)
    \/ \E r \in InFlight : ItemDelDelete(r)
    \/ \E r \in InFlight : UploadCheck(r)
    \/ \E r \in InFlight : UploadSpaces(r)
    \/ \E r \in InFlight : UploadInsert(r)
    \/ \E r \in InFlight : UploadsCheck(r)
    \/ \E r \in InFlight : UploadsList(r)
    \/ \E r \in InFlight : DeleteHash(r)
    \/ \E r \in InFlight : DeleteUser(r)

ItemSpec == ItemInit /\ [][ItemNext]_vars

----------------------------------------------------------------------------
(* one session, its refreshes and logouts, and the timer of the sweep *)

\* the state one signup leaves: the user and the session of its token
RefreshInit ==
    /\ now = 0
    /\ users = [id \in {1} |-> TwoUsers[id]]
    /\ nextUserId = 2
    /\ sessions = {SessionRow(1, generateToken([id |-> 1,
                                  email |-> TwoUsers[1].email]).jti)}
    /\ reqs = EmptyBag
    /\ issued = {generateToken([id |-> 1, email |-> TwoUsers[1].email])}
    /\ resp = NoResp
    /\ items = SampleItems
    /\ nextItemId = SampleItemCount + 1
    /\ uploads = {}
    /\ nextUploadId = 1
    /\ spaces = {}

RefreshNext ==
    \/ \E hdr \in TokenHeaders : StartRefresh(hdr)
    \/ \E hdr \in TokenHeaders : StartLogout(hdr)
    \/ \E r \in InFlight : AuthUser(r)
    \/ \E r \in InFlight : RefreshRevoke(r)
    \/ \E r \in InFlight : RefreshSession(r)
    \/ \E r \in InFlight : LogoutRevoke(r)
    \/ Sweep
    \/ SweepFails
    \/ Tick

RefreshSpec == RefreshInit /\ [][RefreshNext]_vars

\* setInterval is never cleared and the callback catches the rejection of a
\* failed run, so the timer goes on firing: a run whose query succeeds is
\* not put off for ever; and the clock does not stop below its bound
SweepSpec == RefreshSpec /\ WF_vars(Sweep) /\ WF_vars(Tick)

----------------------------------------------------------------------------
(* Properties *)

\* the session row of a token, if the table holds one
RowOf(t) == {s \in sessions : s.token_jti = t.jti}

\* the kinds of request that pass through authenticate
AuthKinds == {"profile", "logout", "refresh", "deleteMe"}

\* the kinds of request that issue a token
IssueKinds == {"signup", "login", "refresh"}

\* C1: a token whose session row has been revoked is answered 401
\* SESSION_EXPIRED by authenticate, without the handler, while its signature
\* and its own expiry are still good: a logout that answers 200 leaves no row
\* for the token it was sent with, every issued token that verifies and has
\* no row is answered SESSION_EXPIRED, and no SESSION_EXPIRED answer comes
\* from a handler.
RevokedTokenRejected ==
    /\ (resp.kind = "logout" /\ resp.status = 200)
          => RowOf(resp.hdr.token) = {}
    /\ \A t \in issued :
          (verifyToken(t) # NoToken /\ RowOf(t) = {})
             => AuthenticateNow(Bearer(t)) = "SESSION_EXPIRED"
    /\ resp.code = "SESSION_EXPIRED" => (resp.status = 401 /\ ~resp.handler)

\* C1 witness: a logout has just revoked the session of a token that still
\* verifies and whose user still exists
RevokedTokenWitness ==
    /\ resp.kind = "logout" /\ resp.status = 200
    /\ verifyToken(resp.hdr.token) # NoToken
    /\ UserById(resp.hdr.token.id) # {}
    /\ AuthenticateNow(resp.hdr) = "SESSION_EXPIRED"

\* C2: a token that a signup, login or refresh has just returned is accepted
\* by authenticate in the state the response leaves, and it carries the id
\* of the user it was issued for, whose row authenticate then attaches.
IssuedTokenValidates ==
    resp.out # NoToken
       => /\ resp.kind \in IssueKinds
          /\ AuthenticateNow(Bearer(resp.out)) = "OK"
          /\ resp.out.id = resp.user.id
          /\ UserById(resp.out.id) = {resp.user.id}

\* C2 witness: a login has just returned a token
IssuedTokenWitness ==
    resp.kind = "login" /\ resp.status = 200 /\ resp.out # NoToken

\* C3: optionalAuth attaches an identity for exactly the Authorization
\* headers that authenticate accepts.
OptionalAuthAsAuthenticate ==
    \A hdr \in Headers :
        OptionalAuthAttaches(hdr) <=> AuthenticateNow(hdr) = "OK"

\* C4: when a refresh sent with token T answers with token T', authenticate
\* rejects T and accepts T', and the rows of T and T' do not both exist.
RefreshReplacesToken ==
    (resp.kind = "refresh" /\ resp.out # NoToken)
       => /\ AuthenticateNow(resp.hdr) # "OK"
          /\ AuthenticateNow(Bearer(resp.out)) = "OK"
          /\ ~(RowOf(resp.hdr.token) # {} /\ RowOf(resp.out) # {})

\* C5: once the session row of an issued token is gone, no step brings a row
\* with that token_id back.
SessionEndIsTerminal ==
    [][\A t \in issued : RowOf(t) = {} => (RowOf(t) = {})']_vars

\* C6: a response carries a token only when the session row of its token_id
\* is in the table, and a signup, login or refresh that answers success
\* carries a token: no success without the row, no token on failure.
TokenOnlyWithSession ==
    /\ resp.out # NoToken
          => \E s \in RowOf(resp.out) : s.user_id = resp.out.id
    /\ (resp.kind \in IssueKinds /\ resp.status \in {200, 201})
          => resp.out # NoToken
    /\ (resp.kind \in IssueKinds /\ resp.status \notin {200, 201})
          => resp.out = NoToken
    /\ \A t \in issued : t.sig = "ok"

\* C6 witness: createSession has just failed in a login, which answers 500
\* without a token
SessionFailureWitness ==
    resp.kind = "login" /\ resp.status = 500 /\ resp.out = NoToken

SweepKeepsLive ==
    [][Sweep => /\ \A s \in sessions : s.expires_at > now => s \in sessions'
                /\ \A t \in issued :
                      AuthenticateNow(Bearer(t)) = "OK"
                         => (AuthenticateNow(Bearer(t)) = "OK")']_vars

\* C8 witness: a sweep has just deleted a row and left a live one
SweepWitness ==
    /\ resp.kind = "sweep" /\ resp.swept > 0
    /\ \E s \in sessions : s.expires_at > now

\* C9: after a sweep no session row is left that the session check of
\* authenticate rejects as expired.
SweepRemovesAllExpired ==
    resp.kind = "sweep" => \A s \in sessions : s.expires_at > now

\* C10: an issuance for a user that exists gets a token_id no session row
\* holds, so its createSession succeeds: no login or refresh for an existing
\* user answers 500.
IssuanceSucceeds ==
    (resp.kind \in {"login", "refresh"} /\ UserById(resp.user.id) # {})
       => resp.status # 500

\* the session rows of a user
SessionsOf(userId) == {s \in sessions : s.user_id = userId}

\* C11: a signup or login that answers success adds one session row, the
\* row of the token it returns for the user it answers, and removes none; a
\* logout that answers 200 removes the row of the token it was sent with and
\* no other row, after which that token is answered SESSION_EXPIRED while
\* it verifies, and every other token is accepted exactly if it was before.
SessionFrame ==
    [][/\ (resp'.kind \in {"signup", "login"} /\ resp'.status \in {200, 201})
             => \E s \in sessions' \ sessions :
                   /\ sessions' = sessions \cup {s}
                   /\ s.user_id = resp'.user.id
                   /\ s.token_jti = resp'.out.jti
       /\ (resp'.kind = "logout" /\ resp'.status = 200)
             => /\ sessions' = sessions \ RowOf(resp'.hdr.token)
                /\ (verifyToken(resp.hdr.token) # NoToken
                       => AuthenticateNow(resp.hdr) = "SESSION_EXPIRED")'
                /\ \A t \in issued :
                      t.jti # resp'.hdr.token.jti
                         => (AuthenticateNow(Bearer(t)) = "OK"
                               <=> (AuthenticateNow(Bearer(t)) = "OK")')
      ]_vars

\* C11 witness: after a signup and a later login of the same user, a logout
\* sent with the first token has just answered 200: the user has one session
\* row, the first token is answered SESSION_EXPIRED and the second accepted
SessionFrameWitness ==
    /\ resp.kind = "logout" /\ resp.status = 200
    /\ Cardinality(SessionsOf(resp.user.id)) = 1
    /\ AuthenticateNow(resp.hdr) = "SESSION_EXPIRED"
    /\ resp.user.id \in DOMAIN users
    /\ users[resp.user.id].last_login # Never
    /\ \E t \in issued :
          /\ t.id = resp.user.id
          /\ t.jti[2] > resp.hdr.token.jti[2]
          /\ AuthenticateNow(Bearer(t)) = "OK"

\* C12: revoking a token_id that has no row changes nothing and is no
\* error: a logout whose handler runs answers 200 whether the row is there
\* or not.  Revoking twice leaves what revoking once leaves; revoke and
\* sweep give the same table in either order, and on a row that the sweep
\* deletes, the table of the sweep alone.
RevokeIdempotent ==
    /\ \A t \in issued :
          LET once == revokeSession(t.jti)
              swept == cleanupExpiredSessions
          IN  /\ RowOf(t) = {} => once = sessions
              /\ DeleteByJti(once, t.jti) = once
              /\ DeleteByJti(swept, t.jti) = DeleteExpired(once)
              /\ RowOf(t) \cap swept = {}
                    => /\ DeleteByJti(swept, t.jti) = swept
                       /\ DeleteExpired(once) = swept
    /\ (resp.kind = "logout" /\ resp.handler) => resp.status = 200

\* C12 witness: of two logouts in flight with one token the first has just
\* answered 200 and deleted the row; the second is about to revoke it again
RevokeRaceWitness ==
    /\ resp.kind = "logout" /\ resp.status = 200
    /\ \E r \in InFlight :
          /\ r.pc = "logout_revoke"
          /\ r.hdr = resp.hdr
          /\ RowOf(r.token) = {}

\* C13: a GET /items or GET /items/:id that optionalAuth gave no identity
\* returns only items whose user_id is null, at most ListLimit of them; one
\* that it gave the identity of a user returns no item of another user.
ReadsOwnOrPublic ==
    resp.kind \in {"items", "item"}
       => /\ \A row \in resp.rows :
                row.user_id # NoOwner
                   => (resp.user # NoUser /\ row.user_id = resp.user.id)
          /\ resp.user = NoUser => Cardinality(resp.rows) <= ListLimit

\* the routes that change an item or what hangs on it
MutatingKinds == {"itemUpdate", "itemDelete", "upload"}

\* the blobs of an item: the keys under items/<id>/
BlobsOfItem(id) == {key \in spaces : key[2] = id}

\* the step is one of a request in flight that authenticate gave this user
StepOfUser(userId) ==
    \E r \in InFlight :
        /\ r.user.id = userId
        /\ CopiesIn(r, reqs') < CopiesIn(r, reqs)

\* the item with this id, its upload rows and its blobs are what they were
ItemUntouched(id) ==
    /\ id \in DOMAIN items' /\ items'[id] = items[id]
    /\ UploadsOfItem(id)' = UploadsOfItem(id)
    /\ BlobsOfItem(id)' = BlobsOfItem(id)

\* C14 as it stands: a PUT, DELETE or upload that reaches its handler for an
\* item owned by another user than the caller is answered 403.
ForeignItemForbidden ==
    (/\ resp.kind \in MutatingKinds /\ resp.handler
     /\ resp.id \in DOMAIN items
     /\ items[resp.id].user_id \notin {NoOwner, resp.user.id})
       => resp.status = 403

\* C14, amended: such a request is answered 403 FORBIDDEN, or 400
\* MISSING_FIELDS when it is an upload without a file; the item stays and
\* its owner can read it; and every step that changes an owned item, its
\* upload rows or its blobs is a step of a request of the owner.
ForeignItemUntouched ==
    [][/\ (/\ resp.kind \in MutatingKinds /\ resp.handler
           /\ resp.id \in DOMAIN items
           /\ items[resp.id].user_id \notin {NoOwner, resp.user.id})'
             => /\ \/ resp'.status = 403 /\ resp'.code = "FORBIDDEN"
                   \/ /\ resp'.kind = "upload" /\ resp'.status = 400
                      /\ resp'.code = "MISSING_FIELDS"
                /\ \E id \in DOMAIN items :
                      id = resp'.id /\ ItemUntouched(id)
                /\ ~ReadDenied(items'[resp'.id],
                               [id |-> items'[resp'.id].user_id,
                                email |-> <<>>])
       /\ \A id \in DOMAIN items :
             (items[id].user_id # NoOwner /\ ~ItemUntouched(id))
                => StepOfUser(items[id].user_id)
      ]_vars

\* C14 witness: a DELETE of an item that has an upload row and a blob has
\* just been answered 403 to a user who is not its owner
ForeignDeleteWitness ==
    /\ resp.kind = "itemDelete" /\ resp.status = 403
    /\ resp.id \in DOMAIN items
    /\ items[resp.id].user_id \notin {NoOwner, resp.user.id}
    /\ UploadsOfItem(resp.id) # {}
    /\ BlobsOfItem(resp.id) # {}

\* what the caller sees of a response
Observable(response) ==
    <<response.status, response.code, response.error, response.out,
      response.rows>>

\* a login request with this body
LoginReq(email, password) ==
    [Idle EXCEPT !.kind = "login",
                 !.body = [NoBody EXCEPT !.email = email,
                                         !.password = password]]

\* the login of this body fails on the e-mail, or on the password
UnknownEmail(body) == UserByEmail(ToLowerCase(body.email)) = {}
WrongPassword(body) ==
    \E id \in UserByEmail(ToLowerCase(body.email)) :
        ~BcryptCompare(body.password, users[id].password_hash)

\* C15: in every state a login with an e-mail no user has and a login with
\* a user's e-mail and another password than the user's end with the same
\* response, 401 INVALID_CREDENTIALS "Invalid email or password" without a
\* token; and the step that answers a login 401 leaves the sessions and the
\* users, so last_login, as they were.
LoginFailuresAlike ==
    /\ [](\A e1 \in Emails, e2 \in Emails, p1 \in Passwords, p2 \in Passwords :
            LET unknown == LoginStep(LoginReq(e1, p1))
                wrong == LoginStep(LoginReq(e2, p2))
            IN  (UnknownEmail(LoginReq(e1, p1).body)
                    /\ WrongPassword(LoginReq(e2, p2).body))
                   => /\ unknown.status = 401 /\ wrong.status = 401
                      /\ Observable(unknown.resp) = Observable(wrong.resp)
                      /\ unknown.resp.code = "INVALID_CREDENTIALS"
                      /\ unknown.resp.error = "Invalid email or password"
                      /\ unknown.resp.out = NoToken)
    /\ [][(resp'.kind = "login" /\ resp'.status = 401)
             => UNCHANGED <<users, sessions, issued>>]_vars

\* C15 witness: a login with the e-mail of a user who has never logged in
\* and with a wrong password has just been answered 401
WrongPasswordWitness ==
    /\ resp.kind = "login" /\ resp.status = 401
    /\ WrongPassword(resp.body)
    /\ \A id \in UserByEmail(ToLowerCase(resp.body.email)) :
          users[id].last_login = Never /\ SessionsOf(id) # {}

\* the rows of users with the e-mail a signup asks for, lower-cased, that
\* are not the row this signup made
RegisteredByOther(response) ==
    UserByEmail(ToLowerCase(response.body.email)) \ {response.user.id}

\* C16: a signup whose e-mail is malformed, whose password is shorter than
\* 8 characters or whose e-mail, lower-cased, is the e-mail of a user row it
\* did not make, is answered 400 and has made no user row.
SignupRejects ==
    (/\ resp.kind = "signup"
     /\ \/ ~EmailRegexTest(resp.body.email)
        \/ Len(resp.body.password) < 8
        \/ RegisteredByOther(resp) # {})
       => (resp.status = 400 /\ resp.user = NoUser)

\* the step is one that request r takes from where it waits, and one that
\* brings a request to where q waits
StepOf(r) == CopiesIn(r, reqs') < CopiesIn(r, reqs)
StepTo(q) == CopiesIn(q, reqs') > CopiesIn(q, reqs)

\* C17: password_hash of a user changes only in the UPDATE of a password
\* change of that user, to the hash of its new_password; a request comes to
\* that UPDATE only from a comparison in which its current_password matched
\* the stored hash; and when the comparison fails the step answers 401
\* INVALID_PASSWORD and leaves the users as they were.
PasswordChangeGuarded ==
    [][/\ \A id \in DOMAIN users :
             (id \in DOMAIN users'
                /\ users'[id].password_hash # users[id].password_hash)
                => \E r \in InFlight :
                      /\ r.kind = "password" /\ r.pc = "password_update"
                      /\ r.user.id = id /\ StepOf(r)
                      /\ users'[id].password_hash
                            = BcryptHash(r.body.new_password)
       /\ \A q \in InFlight' :
             (q.pc = "password_update" /\ StepTo(q))
                => /\ UserById(q.user.id) # {}
                   /\ BcryptCompare(q.body.current_password,
                                    users[q.user.id].password_hash)
       /\ \A r \in InFlight :
             (/\ r.pc = "password_hash" /\ StepOf(r)
              /\ UserById(r.user.id) # {}
              /\ ~BcryptCompare(r.body.current_password,
                                users[r.user.id].password_hash))
                => /\ resp'.kind = "password" /\ resp'.status = 401
                   /\ resp'.code = "INVALID_PASSWORD"
                   /\ users' = users
      ]_vars

\* C17 witness: after a password change the password of before has just
\* been refused as current password, and the hash is that of the change
OldPasswordWitness ==
    /\ resp.kind = "password" /\ resp.status = 401
    /\ resp.body.current_password = TestPassword
    /\ resp.user.id \in DOMAIN users
    /\ users[resp.user.id].password_hash = BcryptHash(NewPassword)

\* the ids the users.id sequence has handed out whose row is not there
GoneUsers == (1..(nextUserId - 1)) \ DOMAIN users

\* C18: a DELETE /users/me that answers 200 leaves no row of its user, and
\* while a user row is gone there is no item, session or upload row with
\* its id, authenticate accepts none of the tokens issued to it and
\* optionalAuth attaches no identity for them.
DeletedUserLeavesNothing ==
    /\ (resp.kind = "deleteMe" /\ resp.status = 200)
          => resp.user.id \in GoneUsers
    /\ \A id \in GoneUsers :
          /\ ItemsOfUser(id) = {}
          /\ SessionsOf(id) = {}
          /\ {u \in uploads : u.user_id = id} = {}
          /\ \A t \in issued :
                t.id = id => /\ AuthenticateNow(Bearer(t)) # "OK"
                             /\ ~OptionalAuthAttaches(Bearer(t))

\* C18 witness: a DELETE /users/me has just answered 200 while an upload of
\* the same user, past its ownership check and with its blob stored, waits
\* to insert its row
DeletedUserWitness ==
    /\ resp.kind = "deleteMe" /\ resp.status = 200
    /\ \E t \in issued : t.id = resp.user.id
    /\ \E r \in InFlight :
          r.pc = "upload_insert" /\ r.user.id = resp.user.id

\* C19: a DELETE /items/:id that has passed its ownership check reads the
\* uploads of the item and tries each of their blobs while the item and
\* upload rows stay as they are; it comes to the DELETE of the item with no
\* blob left untried; and it answers 200 with the item row and the upload
\* rows of the item gone, also when deletions of blobs have failed.
ItemDeleteBestEffort ==
    /\ [](\A r \in InFlight : r.pc = "itemdel_delete" => r.files = {})
    /\ []((resp.kind = "itemDelete" /\ resp.handler
              /\ resp.status \notin {403, 404})
             => (/\ resp.status = 200
                 /\ ItemById(resp.id) = {}
                 /\ UploadsOfItem(resp.id) = {}))
    /\ [][\A r \in InFlight :
             (r.pc \in {"itemdel_uploads", "itemdel_blob"} /\ StepOf(r))
                => /\ UNCHANGED <<items, uploads>>
                   /\ resp' = NoResp
                   /\ (r.pc = "itemdel_blob"
                         => \E fileUrl \in r.files :
                               \/ spaces' = spaces \ {UrlKey(fileUrl)}
                               \/ \E q \in InFlight' :
                                      /\ UrlKey(fileUrl) \in q.failed
                                      /\ StepTo(q))
      ]_vars

\* C19 witness: a DELETE /items/:id has just answered 200 after the deletion
\* of a blob failed: the rows are gone and the blob is still in the bucket
BlobFailureWitness ==
    /\ resp.kind = "itemDelete" /\ resp.status = 200
    /\ resp.failed # {}
    /\ resp.failed \subseteq spaces
    /\ ItemById(resp.id) = {} /\ UploadsOfItem(resp.id) = {}

\* C20: an upload comes to its INSERT only from a step in which the bucket
\* took its blob, with the Location of its key as file_url; an upload that
\* leaves its call of the storage without coming to the INSERT is answered
\* 500 UPLOAD_ERROR and the upload rows stay as they are; and every upload
\* row that appears is the row of an upload at its INSERT.
FailedUploadAborts ==
    [][/\ \A q \in InFlight' :
             (q.pc = "upload_insert" /\ StepTo(q))
                => (q.key \in spaces' /\ q.fileUrl = Location(q.key))
       /\ \A r \in InFlight :
             (r.pc = "upload_spaces" /\ StepOf(r))
                => \/ \E q \in InFlight' : q.pc = "upload_insert" /\ StepTo(q)
                   \/ /\ resp'.kind = "upload" /\ resp'.status = 500
                      /\ resp'.code = "UPLOAD_ERROR"
                      /\ resp'.rows = {}
                      /\ UNCHANGED <<uploads, spaces>>
       /\ \A u \in uploads' \ uploads :
             \E r \in InFlight :
                /\ r.pc = "upload_insert" /\ StepOf(r)
                /\ u.file_url = r.fileUrl /\ u.item_id = r.id
      ]_vars

\* C20 witness: an upload by the owner of an item that is still there has
\* just been answered 500; its blob is not in the bucket and the item has
\* no upload row
FailedUploadWitness ==
    /\ resp.kind = "upload" /\ resp.status = 500
    /\ resp.key \notin spaces
    /\ resp.id \in DOMAIN items /\ items[resp.id].user_id = resp.user.id
    /\ UserById(resp.user.id) # {}
    /\ UploadsOfItem(resp.id) = {}

\* C21: a refresh whose createSession fails after its revokeSession is
\* answered with an error and no token, and in the state it leaves
\* authenticate does not accept the token it was sent with: no session row
\* of that token_id is there.
RefreshFailureLogsOut ==
    (resp.kind = "refresh" /\ resp.status = 500)
       => /\ resp.out = NoToken
          /\ RowOf(resp.hdr.token) = {}
          /\ AuthenticateNow(resp.hdr) # "OK"

\* a GET /items request with this header as it comes to optionalAuth
ItemsReq(hdr) == [Idle EXCEPT !.kind = "items", !.hdr = hdr,
                              !.pc = "items_list"]

\* C22: for every Authorization header and either outcome of its query,
\* optionalAuth sends no response and hands the request to the handler, with
\* nothing attached when the query failed; every response of GET /items and
\* GET /items/:id is the handler's; and the step in which such a request
\* arrives answers nothing and puts exactly that one request in flight.
OptionalAuthNeverRejects ==
    /\ [](\A hdr \in Headers, ok \in BOOLEAN :
            LET o == optionalAuth(ItemsReq(hdr), ok)
            IN  /\ o.status = 0 /\ o.resp = NoResp
                /\ o.req.pc = "items_list" /\ o.req.hdr = hdr
                /\ ~ok => o.req.user = NoUser)
    /\ [](resp.kind \in {"items", "item"}
            => (resp.handler /\ resp.status # 401))
    /\ [][\A q \in InFlight' :
             (q.pc \in {"items_list", "item_get"} /\ StepTo(q))
                => /\ resp' = NoResp
                   /\ BagCardinality(reqs') = BagCardinality(reqs) + 1]_vars

\* C22 witness: a GET /items sent with the token of a user that exists has
\* come to its handler with no identity, because the query of optionalAuth
\* failed, while one sent with a forged token is in flight beside it
OptionalAuthFaultWitness ==
    /\ \E r \in InFlight :
          /\ r.pc = "items_list" /\ HasBearer(r.hdr)
          /\ verifyToken(r.hdr.token) # NoToken
          /\ UserById(r.hdr.token.id) # {}
          /\ r.user = NoUser
    /\ \E r \in InFlight :
          r.pc = "items_list" /\ HasBearer(r.hdr) /\ r.hdr.token.sig = "bad"

\* the session rows createSession can insert
SessionRows ==
    {[user_id |-> id, token_jti |-> <<id, t>>,
      expires_at |-> t + ExpiresInMs, created_at |-> t] :
        id \in 1..MaxUserId, t \in 0..MaxTime}

\* C23: while the timer goes on firing, every session row whose expires_at
\* lies behind the clock is deleted in the end, whatever requests arrive or
\* do not arrive and whichever runs of the sweep fail; a run that fails is
\* logged and deletes nothing.
ExpiredRowsSwept ==
    /\ \A s \in SessionRows :
          (s \in sessions /\ s.expires_at < now) ~> (s \notin sessions)
    /\ [][SweepFails => (/\ sessions' = sessions
                         /\ resp'.error = "Session cleanup error")]_vars

\* C23 witness: a run of the sweep has just failed while a row whose
\* expires_at has passed is in the table and no request is in flight
FailedSweepWitness ==
    /\ resp.kind = "sweep" /\ resp.error # ""
    /\ reqs = EmptyBag
    /\ \E s \in sessions : s.expires_at < now

\* C24: every session row in the table has expires_at > created_at.
ExpiresAfterCreated ==
    \A s \in sessions : s.expires_at > s.created_at

\* C24 witness: a refresh has just inserted a row, later than the clock's
\* start, beside a row of another instant
ExpiresAfterCreatedWitness ==
    /\ resp.kind = "refresh" /\ resp.status = 200
    /\ \E s \in RowOf(resp.out) :
          /\ s.created_at > 0
          /\ s.expires_at = s.created_at + ExpiresInMs
    /\ Cardinality(sessions) > 1

\* C25: of the refreshes sent with one token at most one returns a
\* replacement.  Where a user starts with one session and tokens are issued
\* by refreshes only, every session row is the successor of a row a refresh
\* has revoked, so the user never has two rows: a refresh that returns a
\* token finds no row of its user in the table.
RefreshNonReentrant ==
    [][(resp'.kind = "refresh" /\ resp'.out # NoToken)
          => /\ \A s \in sessions : s.user_id # resp'.user.id
             /\ Cardinality({s \in sessions' : s.user_id = resp'.user.id}) = 1
      ]_vars

\* C26: when a logout sent with token T has answered 200, authenticate
\* accepts no token obtained by refreshing T.  Where T and one later token
\* are all the tokens issued, the later one is the answer of a refresh sent
\* with T.
LogoutEndsRefreshed ==
    (resp.kind = "logout" /\ resp.status = 200)
       => \A t \in issued :
             (issued = {resp.hdr.token, t}
                /\ t.jti[2] > resp.hdr.token.jti[2])
                => AuthenticateNow(Bearer(t)) # "OK"

PasswordKeepsSessions ==
    [][(\/ resp'.kind = "password"
        \/ \E q \in InFlight' : q.kind = "password" /\ StepTo(q))
          => /\ sessions' = sessions
             /\ \A t \in issued :
                   AuthenticateNow(Bearer(t)) = "OK"
                      => (AuthenticateNow(Bearer(t)) = "OK")'
      ]_vars

\* C28 witness: a password change has just answered 200: the hash is that
\* of the new password, and the token it was sent with, issued under the
\* old password, is still accepted
PasswordChangedWitness ==
    /\ resp.kind = "password" /\ resp.status = 200
    /\ resp.user.id \in DOMAIN users
    /\ users[resp.user.id].password_hash = BcryptHash(NewPassword)
    /\ AuthenticateNow(resp.hdr) = "OK"
    /\ RowOf(resp.hdr.token) # {}

\* C29: a signup that is not answered 201 has left no user row and no
\* session row of its own, and unless another request has registered its
\* e-mail, a signup with the same well-formed body passes the lookup of the
\* e-mail and goes on to its INSERT.
FailedSignupLeavesNothing ==
    (resp.kind = "signup" /\ resp.status # 201)
       => /\ UserById(resp.user.id) = {}
          /\ SessionsOf(resp.user.id) = {}
          /\ (/\ EmailRegexTest(resp.body.email)
              /\ Len(resp.body.password) >= 8
              /\ RegisteredByOther(resp) = {})
                => SignupStep([Idle EXCEPT !.kind = "signup",
                                           !.body = resp.body]).status = 0

\* the routes behind the ownership check
OwnerKinds == MutatingKinds \cup {"uploads"}

\* C30 as it stands: a PUT, DELETE, upload or listing of uploads that
\* reaches its handler for an item whose user_id is null is answered 403.
LegacyItemForbidden ==
    (/\ resp.kind \in OwnerKinds /\ resp.handler
     /\ resp.id \in DOMAIN items
     /\ items[resp.id].user_id = NoOwner)
       => resp.status = 403

\* C30, amended: such a request is answered 403 FORBIDDEN, or 400
\* MISSING_FIELDS when it is an upload without a file, and returns no row;
\* and no step changes an item whose user_id is null, its upload rows or its
\* blobs.
LegacyItemImmutable ==
    [][/\ (/\ resp.kind \in OwnerKinds /\ resp.handler
           /\ resp.id \in DOMAIN items
           /\ items[resp.id].user_id = NoOwner)'
             => /\ \/ resp'.status = 403 /\ resp'.code = "FORBIDDEN"
                   \/ /\ resp'.kind = "upload" /\ resp'.status = 400
                      /\ resp'.code = "MISSING_FIELDS"
                /\ resp'.rows = {}
       /\ \A id \in DOMAIN items :
             items[id].user_id = NoOwner => ItemUntouched(id)
      ]_vars

\* C30 witness: a listing of the uploads of an item whose user_id is null
\* has just been answered 403 to a user who owns another item
LegacyForbiddenWitness ==
    /\ resp.kind = "uploads" /\ resp.status = 403
    /\ resp.id \in DOMAIN items /\ items[resp.id].user_id = NoOwner
    /\ ItemsOfUser(resp.user.id) # {}

====
